---------------------------- MODULE Spec2Model ----------------------------
(***************************************************************************)
(* Model of the AQED partial-fetch reader of repro/api_smoketest.py:       *)
(* http_request (the range transport), parse_aqed_header and               *)
(* fetch_aqed_sample_vectors (the decoder, "sample").                      *)
(*                                                                         *)
(* Bytes are integers 0..255, a buffer is a sequence of bytes.  A float32  *)
(* is the triple (sign, exponent, mantissa) of its IEEE-754 bit pattern.   *)
(* Every call of fetch_aqed_sample_vectors is one entry of `calls`; the    *)
(* resource behind its data_url is the entry of `server` with that index.  *)
(***************************************************************************)
EXTENDS Integers, Sequences, FiniteSets, TLC

VARIABLES server, calls, main

vars == <<server, calls, main>>

\* ------------------------------------------------------------------ bounds
MaxN == 2          \* largest record count n written into a header
MaxDim == 2        \* largest dOrig written into a header
MaxReq == 3        \* largest n_vectors a caller passes (smallest is -1)

\* ------------------------------------------------------- program constants
HeaderSize == 64   \* header_size
FloatSize == 4     \* bytes per value

Min(a, b) == IF a < b THEN a ELSE b
Max(a, b) == IF a > b THEN a ELSE b

\* b"AQED"
Magic == <<65, 81, 69, 68>>
BadMagic == <<65, 81, 69, 69>>

FLAG_HAS_ORIGINAL == 1
FLAG_HAS_AQEA == 2

\* flags & bit, for the two one-bit masks the program uses
BitAnd(flags, bit) == IF (flags \div bit) % 2 = 1 THEN bit ELSE 0

\* ---------------------------------------------------------------- struct
\* struct.unpack_from("<I", buf, off)[0]
U32LE(buf, off) ==
    buf[off + 1] + 256 * buf[off + 2] + 65536 * buf[off + 3]
        + 16777216 * buf[off + 4]

\* struct.pack("<I", x), the writer's side of the layout
EncU32(x) ==
    << x % 256, (x \div 256) % 256, (x \div 65536) % 256,
       (x \div 16777216) % 256 >>

\* faulty variant: the four bytes are read most significant first
F32LE_BigEndian(buf, off) ==
    [ s |-> buf[off + 1] \div 128,
      e |-> (buf[off + 1] % 128) * 2 + (buf[off + 2] \div 128),
      m |-> (buf[off + 2] % 128) * 65536 + buf[off + 3] * 256 + buf[off + 4] ]

\* struct.unpack_from("<f", buf, off)[0]: little-endian IEEE-754 single
F32LE(buf, off) ==
    [ s |-> buf[off + 4] \div 128,
      e |-> (buf[off + 4] % 128) * 2 + (buf[off + 3] \div 128),
      m |-> (buf[off + 3] % 128) * 65536 + buf[off + 2] * 256 + buf[off + 1] ]

\* struct.unpack_from("<" + "f"*d, buf, off): raises struct.error when the
\* buffer holds fewer than d*4 bytes from off
UnpackFits(buf, off, d) == off + d * FloatSize <= Len(buf)

\* 'f' hands each value over as a Python float, a C double.  The widening
\* is exact for every value but a signalling NaN (exponent all ones, top
\* fraction bit clear, fraction not zero): there the conversion sets the
\* quiet bit on a build whose hardware quiets, and keeps it on one that
\* copies the payload.
QuietBit == 2 ^ 22
IsSignalling(f) == f.e = 255 /\ f.m > 0 /\ f.m < QuietBit
PyFloat(f, quiets) ==
    IF quiets /\ IsSignalling(f) THEN [f EXCEPT !.m = @ + QuietBit] ELSE f

UnpackRow(buf, off, d, quiets) ==
    [ j \in 1..d |-> PyFloat(F32LE(buf, off + (j - 1) * FloatSize), quiets) ]

\* ------------------------------------------------------------- the server
\* a container as a writer lays it out: 64-byte header, then the sections
DataByte(i) == (i * 37 + 11) % 256

SectionBytes(n, dOrig, dAqea, flags) ==
    (IF BitAnd(flags, FLAG_HAS_ORIGINAL) # 0 THEN n * dOrig * FloatSize ELSE 0)
  + (IF BitAnd(flags, FLAG_HAS_AQEA) # 0 THEN n * dAqea * FloatSize ELSE 0)

MkFile(magic, version, n, dOrig, dAqea, flags) ==
    magic \o EncU32(version) \o EncU32(n) \o EncU32(dOrig) \o EncU32(dAqea)
          \o EncU32(flags) \o [ i \in 1..(HeaderSize - 24) |-> 0 ]
          \o [ i \in 1..SectionBytes(n, dOrig, dAqea, flags)
                 |-> DataByte(HeaderSize + i - 1) ]

Files ==
    { MkFile(mg, v, n, d, a, fl) :
        mg \in {Magic, BadMagic}, v \in {1, 2}, n \in 0..MaxN,
        d \in 0..MaxDim, a \in 0..1, fl \in 0..3 }

\* the container of the design's worked scenarios: n=100, dOrig=8, flags=1
ScenarioFile == MkFile(Magic, 1, 100, 8, 0, 1)

\* the same resource with another header and other data in its place
Altered(f) ==
    [ i \in 1..Len(f) |-> IF i <= 4 THEN BadMagic[i]
                          ELSE IF i <= HeaderSize THEN 9
                          ELSE (f[i] + 1) % 256 ]

Statuses == {200, 206, 404, 416, 500}
BodyKinds == {"slice", "full", "cut", "empty", "altered"}

Slice(f, lo, hi) == SubSeq(f, lo + 1, Min(hi + 1, Len(f)))

\* buf[:n], which is the whole of a shorter buf
Prefix(buf, n) == SubSeq(buf, 1, Min(n, Len(buf)))

\* what a server may put in the body of its answer to "Range: bytes=lo-hi"
ServedBody(f, kind, lo, hi) ==
    CASE kind = "slice"   -> Slice(f, lo, hi)
      [] kind = "full"    -> f
      [] kind = "cut"     -> SubSeq(Slice(f, lo, hi), 1, Len(Slice(f, lo, hi)) - 1)
      [] kind = "empty"   -> << >>
      [] kind = "altered" -> Altered(f)

\* what urlopen meets: no answer at all (URLError, timeout) or an answer
Outcomes(f, lo, hi) ==
    { [transport |-> TRUE, status |-> 0, body |-> << >>] }
  \cup { [transport |-> FALSE, status |-> st, body |-> ServedBody(f, k, lo, hi)] :
           st \in Statuses, k \in BodyKinds }

\* ----------------------------------------------------------- http_request
NoResult == [status |-> 0, body |-> << >>]

\* faulty variant: a transport failure is turned into an empty answer
http_request_Swallow(o) ==
    IF o.transport
    THEN [raised |-> FALSE, exc |-> "", res |-> NoResult]
    ELSE [raised |-> FALSE, exc |-> "",
          res |-> [status |-> o.status, body |-> o.body]]

\* faulty variant: the HTTPError of a status that is no 2xx is not caught
http_request_RaiseForStatus(o) ==
    IF o.transport
    THEN [raised |-> TRUE, exc |-> "URLError", res |-> NoResult]
    ELSE IF o.status \in 200..299
         THEN [raised |-> FALSE, exc |-> "",
               res |-> [status |-> o.status, body |-> o.body]]
         ELSE [raised |-> TRUE, exc |-> "HTTPError", res |-> NoResult]

\* urlopen returns for a 2xx status and raises HTTPError otherwise; the
\* except clause turns the HTTPError into an HttpResult as well.  URLError
\* and timeouts are not caught.
http_request(o) ==
    IF o.transport
    THEN [raised |-> TRUE, exc |-> "URLError", res |-> NoResult]
    ELSE IF o.status \in 200..299
         THEN [raised |-> FALSE, exc |-> "",
               res |-> [status |-> o.status, body |-> o.body]]
         ELSE [raised |-> FALSE, exc |-> "",
               res |-> [status |-> o.status, body |-> o.body]]

\* ------------------------------------------------------ parse_aqed_header
ParseFail(msg) ==
    [raised |-> TRUE, msg |-> msg, header_size |-> 0, n |-> 0, d_orig |-> 0,
     flags |-> 0]

HeaderDim(d_orig, d_aqea, flags) ==
    IF BitAnd(flags, FLAG_HAS_ORIGINAL) # 0 THEN d_orig
    ELSE IF BitAnd(flags, FLAG_HAS_AQEA) # 0 THEN d_aqea
    ELSE 0

\* faulty variant: only the record count is checked
BadCounts_OnlyN(n, d_orig) == n <= 0

\* line 133
BadCounts(n, d_orig) == n <= 0 \/ d_orig <= 0

\* faulty variant: the version is looked at before the tag
parse_aqed_header_VersionFirst(buf) ==
    IF Len(buf) < 64 THEN ParseFail("header requires at least 64 bytes")
    ELSE IF U32LE(buf, 4) # 1 THEN ParseFail("unsupported version")
    ELSE IF SubSeq(buf, 1, 4) # Magic THEN ParseFail("missing magic bytes")
    ELSE IF BadCounts(U32LE(buf, 8), U32LE(buf, 12))
         THEN ParseFail("invalid header n/dOrig")
    ELSE IF HeaderDim(U32LE(buf, 12), U32LE(buf, 16), U32LE(buf, 20)) <= 0
         THEN ParseFail("no embeddings present")
    ELSE [raised |-> FALSE, msg |-> "", header_size |-> HeaderSize,
          n |-> U32LE(buf, 8), d_orig |-> U32LE(buf, 12),
          flags |-> U32LE(buf, 20)]

parse_aqed_header(buf) ==
    IF Len(buf) < 64 THEN ParseFail("header requires at least 64 bytes")
    ELSE IF SubSeq(buf, 1, 4) # Magic THEN ParseFail("missing magic bytes")
    ELSE IF U32LE(buf, 4) # 1 THEN ParseFail("unsupported version")
    ELSE IF BadCounts(U32LE(buf, 8), U32LE(buf, 12))
         THEN ParseFail("invalid header n/dOrig")
    ELSE IF HeaderDim(U32LE(buf, 12), U32LE(buf, 16), U32LE(buf, 20)) <= 0
         THEN ParseFail("no embeddings present")
    ELSE [raised |-> FALSE, msg |-> "", header_size |-> HeaderSize,
          n |-> U32LE(buf, 8), d_orig |-> U32LE(buf, 12),
          flags |-> U32LE(buf, 20)]

\* ---------------------------------------------- fetch_aqed_sample_vectors
\* faulty variant: only server errors are refused
StatusOk_Below500(status) == status < 500

\* faulty variant: only partial content is taken
StatusOk_Only206(status) == status = 206

StatusOk(status) == status \in {200, 206}

\* faulty variant: the length of a body is not checked
TooShort_Unchecked(body, need) == FALSE

\* faulty variant: a body one byte short is let through
TooShort_OffByOne(body, need) == Len(body) + 1 < need

\* lines 155 and 169
TooShort(body, need) == Len(body) < need

\* faulty variant: the header range is one byte too long
HeaderRange_OffByOne == [lo |-> 0, hi |-> 64]

\* "bytes=0-63"
HeaderRange == [lo |-> 0, hi |-> 63]

\* faulty variant: the request is not clamped to at least 1
Take_NoClamp(n_vectors, total_n) == Min(n_vectors, total_n)

Take(n_vectors, total_n) == Min(Max(1, n_vectors), total_n)

\* faulty variant: the width of a value is left out of the length
ByteLen_NoWidth(header_size, take, d_orig) == header_size + take * d_orig

ByteLen(header_size, take, d_orig) == header_size + take * d_orig * FloatSize

NoError == [exc |-> "", msg |-> ""]
NoReturn == [dim |-> 0, vectors |-> << >>]

NewCall(n_vectors) ==
    [ pc |-> "START", n_vectors |-> n_vectors, requests |-> << >>,
      wire |-> << >>,
      head |-> NoResult, header_size |-> 0, total_n |-> 0, d_orig |-> 0,
      flags |-> 0, take |-> 0, byte_len |-> 0, chunk |-> NoResult,
      vectors |-> << >>, offset |-> 0, err |-> NoError, ret |-> NoReturn ]

\* faulty variant: a failed step starts the call over
Raise_Restart(call, exc, msg) ==
    [call EXCEPT !.pc = "START", !.err = [exc |-> exc, msg |-> msg]]

Raise(call, exc, msg) ==
    [call EXCEPT !.pc = "FAILED", !.err = [exc |-> exc, msg |-> msg]]

\* lines 152-156: the header request and the checks of its answer
AfterHeaderFetch(call, o) ==
    LET sent == [call EXCEPT !.requests = Append(@, HeaderRange),
                             !.wire = Append(@, o)]
        r == http_request(o)
    IN  IF r.raised THEN Raise(sent, r.exc, "transport")
        ELSE LET got == [sent EXCEPT !.head = r.res]
             IN  IF ~StatusOk(r.res.status)
                 THEN Raise(got, "ValueError", "header fetch failed")
                 ELSE IF TooShort(r.res.body, 64)
                 THEN Raise(got, "ValueError", "header too small")
                 ELSE [got EXCEPT !.pc = "HEADER_FETCHED"]

\* faulty variant: the first call's good header answer is kept and parsed
\* by every call
AfterHeaderValidate_Cached(call) ==
    LET cached == IF StatusOk(calls[1].head.status)
                       /\ ~TooShort(calls[1].head.body, 64)
                  THEN calls[1].head ELSE call.head
        h == parse_aqed_header(Prefix(cached.body, 64))
    IN  IF h.raised THEN Raise(call, "ValueError", h.msg)
        ELSE [call EXCEPT !.pc = "HEADER_VALIDATED",
                          !.header_size = h.header_size, !.total_n = h.n,
                          !.d_orig = h.d_orig, !.flags = h.flags]

\* line 157
AfterHeaderValidate(call) ==
    LET h == parse_aqed_header(Prefix(call.head.body, 64))
    IN  IF h.raised THEN Raise(call, "ValueError", h.msg)
        ELSE [call EXCEPT !.pc = "HEADER_VALIDATED",
                          !.header_size = h.header_size, !.total_n = h.n,
                          !.d_orig = h.d_orig, !.flags = h.flags]

\* lines 159-165: the section check and the range
\* faulty variant: either section is taken for the original one
HasOriginal_AnySection(flags) ==
    BitAnd(flags, FLAG_HAS_ORIGINAL) # 0 \/ BitAnd(flags, FLAG_HAS_AQEA) # 0

HasOriginal(flags) == BitAnd(flags, FLAG_HAS_ORIGINAL) # 0

Ranged(call) ==
    LET take == Take(call.n_vectors, call.total_n)
        byte_len == ByteLen(call.header_size, take, call.d_orig)
    IN  [call EXCEPT !.take = take, !.byte_len = byte_len]

\* lines 166-173: the payload request, the checks of its answer, the
\* start of the decoding loop
\* faulty variant: the header at the front of the payload answer is parsed
\* again and has to be a valid one
AfterPayloadFetch_Revalidated(call, o) ==
    LET sent == [call EXCEPT
                   !.requests = Append(@, [lo |-> 0, hi |-> call.byte_len - 1]),
                   !.wire = Append(@, o)]
        r == http_request(o)
    IN  IF r.raised THEN Raise(sent, r.exc, "transport")
        ELSE LET got == [sent EXCEPT !.chunk = r.res]
             IN  IF ~StatusOk(r.res.status)
                 THEN Raise(got, "ValueError", "range fetch failed")
                 ELSE IF TooShort(r.res.body, call.byte_len)
                 THEN Raise(got, "ValueError", "range truncated")
                 ELSE IF parse_aqed_header(Prefix(r.res.body, 64)).raised
                 THEN Raise(got, "ValueError",
                            parse_aqed_header(Prefix(r.res.body, 64)).msg)
                 ELSE [got EXCEPT !.pc = "PAYLOAD_FETCHED", !.vectors = << >>,
                                  !.offset = call.header_size]

AfterPayloadFetch(call, o) ==
    LET sent == [call EXCEPT
                   !.requests = Append(@, [lo |-> 0, hi |-> call.byte_len - 1]),
                   !.wire = Append(@, o)]
        r == http_request(o)
    IN  IF r.raised THEN Raise(sent, r.exc, "transport")
        ELSE LET got == [sent EXCEPT !.chunk = r.res]
             IN  IF ~StatusOk(r.res.status)
                 THEN Raise(got, "ValueError", "range fetch failed")
                 ELSE IF TooShort(r.res.body, call.byte_len)
                 THEN Raise(got, "ValueError", "range truncated")
                 ELSE [got EXCEPT !.pc = "PAYLOAD_FETCHED", !.vectors = << >>,
                                  !.offset = call.header_size]

\* faulty variant: the cursor advances by values, not bytes
NextOffset_ByValues(offset, d_orig) == offset + d_orig

\* lines 175-177: one pass of the loop
NextOffset(offset, d_orig) == offset + d_orig * FloatSize

AfterDecode(call, quiets) ==
    IF ~UnpackFits(call.chunk.body, call.offset, call.d_orig)
    THEN Raise(call, "struct.error", "unpack_from requires a larger buffer")
    ELSE [call EXCEPT
            !.vectors = Append(@, UnpackRow(call.chunk.body, call.offset,
                                            call.d_orig, quiets)),
            !.offset = NextOffset(call.offset, call.d_orig)]

\* ----------------------------------------------------------------- actions
HeaderFetch(c) ==
    /\ calls[c].pc = "START"
    /\ \E o \in Outcomes(server[c], HeaderRange.lo, HeaderRange.hi) :
          calls' = [calls EXCEPT ![c] = AfterHeaderFetch(calls[c], o)]
    /\ UNCHANGED <<server, main>>

HeaderValidate(c) ==
    /\ calls[c].pc = "HEADER_FETCHED"
    /\ calls' = [calls EXCEPT ![c] = AfterHeaderValidate(calls[c])]
    /\ UNCHANGED <<server, main>>

\* lines 159-161: a container without the original section is refused
SectionMissing(c) ==
    /\ calls[c].pc = "HEADER_VALIDATED"
    /\ ~HasOriginal(calls[c].flags)
    /\ calls' = [calls EXCEPT ![c] =
                   Raise(calls[c], "ValueError", "no original embeddings section")]
    /\ UNCHANGED <<server, main>>

\* lines 159-173 with the original section present
PayloadFetch(c) ==
    /\ calls[c].pc = "HEADER_VALIDATED"
    /\ HasOriginal(calls[c].flags)
    /\ \E o \in Outcomes(server[c], 0, Ranged(calls[c]).byte_len - 1) :
          calls' = [calls EXCEPT ![c] = AfterPayloadFetch(Ranged(calls[c]), o)]
    /\ UNCHANGED <<server, main>>

DecodeRecord(c) ==
    /\ calls[c].pc = "PAYLOAD_FETCHED"
    /\ Len(calls[c].vectors) < calls[c].take
    /\ \E quiets \in BOOLEAN :
          calls' = [calls EXCEPT ![c] = AfterDecode(calls[c], quiets)]
    /\ UNCHANGED <<server, main>>

DecodeDone(c) ==
    /\ calls[c].pc = "PAYLOAD_FETCHED"
    /\ Len(calls[c].vectors) >= calls[c].take
    /\ calls' = [calls EXCEPT ![c].pc = "RECORDS_DECODED"]
    /\ UNCHANGED <<server, main>>

\* line 178
Return(c) ==
    /\ calls[c].pc = "RECORDS_DECODED"
    /\ calls' = [calls EXCEPT ![c].pc = "DONE",
                              ![c].ret = [dim |-> calls[c].d_orig,
                                          vectors |-> calls[c].vectors]]
    /\ UNCHANGED <<server, main>>

Requested == (-1)..MaxReq

\* the requests of the design's worked scenarios
ScenarioRequested == {8, 1000}

\* main is not running: the function is called on its own
NotRunning ==
    [ pc |-> "OFF", env |-> [set |-> FALSE, val |-> << >>], pq |-> FALSE,
      sample |-> 0, sent |-> << >>, answers |-> << >>, out |-> << >>,
      rc |-> -1, models |-> << >>, model_id |-> << >>, api_key |-> << >> ]

Init ==
    /\ \/ /\ server \in [1..1 -> Files]
          /\ calls \in [1..1 -> {NewCall(k) : k \in Requested}]
       \/ /\ server = [c \in 1..1 |-> ScenarioFile]
          /\ calls \in [1..1 -> {NewCall(k) : k \in ScenarioRequested}]
    /\ main = NotRunning

CallIds == DOMAIN calls

DoHeaderFetch == \E c \in CallIds : HeaderFetch(c)
DoHeaderValidate == \E c \in CallIds : HeaderValidate(c)
DoSectionMissing == \E c \in CallIds : SectionMissing(c)
DoPayloadFetch == \E c \in CallIds : PayloadFetch(c)
DoDecodeRecord == \E c \in CallIds : DecodeRecord(c)
DoDecodeDone == \E c \in CallIds : DecodeDone(c)
DoReturn == \E c \in CallIds : Return(c)

Next ==
    \/ DoHeaderFetch
    \/ DoHeaderValidate
    \/ DoSectionMissing
    \/ DoPayloadFetch
    \/ DoDecodeRecord
    \/ DoDecodeDone
    \/ DoReturn

Spec == Init /\ [][Next]_vars

\* Two calls for the same resource and the same n_vectors, each answered
\* by the server on its own.
PairFiles ==
    { MkFile(Magic, 1, 2, 1, 1, 3),
      SubSeq(MkFile(Magic, 1, 2, 1, 0, 1), 1, HeaderSize + FloatSize),
      MkFile(Magic, 2, 1, 1, 0, 1),
      MkFile(Magic, 1, 0, 1, 0, 1),
      MkFile(Magic, 1, 1, 1, 1, 0),
      MkFile(Magic, 1, 1, 1, 1, 2) }

PairRequested == {0, 2}

InitPair ==
    /\ \E f \in PairFiles : server = [c \in 1..2 |-> f]
    /\ \E k \in PairRequested : calls = [c \in 1..2 |-> NewCall(k)]
    /\ main = NotRunning

SpecPair == InitPair /\ [][Next]_vars

\* Two calls running side by side, for the same resource or for two
\* different ones, call c asking for c records.
ConcFiles ==
    { MkFile(Magic, 1, 2, 1, 1, 3),
      MkFile(Magic, 1, 1, 2, 0, 1),
      MkFile(Magic, 1, 1, 1, 1, 2) }

InitConc ==
    /\ server \in [1..2 -> ConcFiles]
    /\ calls = [c \in 1..2 |-> NewCall(c)]
    /\ main = NotRunning

SpecConc == InitConc /\ [][Next]_vars

\* One call on a container written from chosen vectors: a valid header
\* with n = k, dOrig = d and bit 0 set, then the k records, each value as
\* struct.pack("<f") lays it out; the call asks for all k records.
EncF32(f) ==
    << f.m % 256, (f.m \div 256) % 256,
       (f.e % 2) * 128 + (f.m \div 65536), f.s * 128 + (f.e \div 2) >>

EncRecords(vs) ==
    LET d == Len(vs[1])
    IN  [ i \in 1..(Len(vs) * d * FloatSize) |->
            EncF32(vs[((i - 1) \div (d * FloatSize)) + 1]
                     [(((i - 1) % (d * FloatSize)) \div FloatSize) + 1])
                  [((i - 1) % FloatSize) + 1] ]

MkContainer(vs) ==
    Magic \o EncU32(1) \o EncU32(Len(vs)) \o EncU32(Len(vs[1])) \o EncU32(0)
          \o EncU32(FLAG_HAS_ORIGINAL) \o [ i \in 1..(HeaderSize - 24) |-> 0 ]
          \o EncRecords(vs)

\* 1.0, -2.5, the smallest denormal, a quiet NaN and a signalling NaN
Float32s ==
    { [s |-> 0, e |-> 127, m |-> 0],
      [s |-> 1, e |-> 128, m |-> 2097152],
      [s |-> 0, e |-> 0, m |-> 1],
      [s |-> 0, e |-> 255, m |-> QuietBit + 1],
      [s |-> 1, e |-> 255, m |-> 1] }

RoundShapes == (1..2) \X (1..2)

RoundVectors ==
    UNION { [1..sh[1] -> [1..sh[2] -> Float32s]] : sh \in RoundShapes }

\* beside them, one container written with the compressed section only
InitRound ==
    /\ \/ \E vs \in RoundVectors :
             /\ server = [c \in 1..1 |-> MkContainer(vs)]
             /\ calls = [c \in 1..1 |-> NewCall(Len(vs))]
       \/ /\ server = [c \in 1..1 |-> MkFile(Magic, 1, 1, 1, 1, FLAG_HAS_AQEA)]
          /\ calls = [c \in 1..1 |-> NewCall(1)]
    /\ main = NotRunning

SpecRound == InitRound /\ [][Next]_vars

\* ------------------------------------------------------------------- main
\* Texts are sequences of tokens: a character of a body or of a key is a
\* one-character token, a fixed piece of a message is a longer one.
ApiKey == <<"s", "k", "7">>

\* os.environ: AQEA_API_KEY unset, empty, blank, a key, a key between blanks
Environments ==
    { [set |-> FALSE, val |-> << >>], [set |-> TRUE, val |-> << >>],
      [set |-> TRUE, val |-> <<" ", " ">>], [set |-> TRUE, val |-> ApiKey],
      [set |-> TRUE, val |-> <<" ">> \o ApiKey \o <<" ">>] }

\* str.strip()
RECURSIVE LStrip(_)
LStrip(t) == IF t # << >> /\ Head(t) = " " THEN LStrip(Tail(t)) ELSE t
RECURSIVE RStrip(_)
RStrip(t) ==
    IF t # << >> /\ t[Len(t)] = " "
    THEN RStrip(SubSeq(t, 1, Len(t) - 1)) ELSE t
Strip(t) == RStrip(LStrip(t))

\* line 225: os.environ.get("AQEA_API_KEY", "").strip()
ReadKey(env) == Strip(IF env.set THEN env.val ELSE << >>)

\* body[:200]!r of the fatal messages
BodyCut == 200
Repr(b) == <<"b'">> \o b \o <<"'">>
Shown(body) == Repr(Prefix(body, BodyCut))

\* --sample, by default
DefaultSample == 8

\* a JSON object, flattened: one entry per member, nested members by path
Entry(path, kind, val) == [path |-> path, kind |-> kind, val |-> val]

ValTokens(e) ==
    CASE e.kind = "str"   -> <<"\"">> \o e.val \o <<"\"">>
      [] e.kind = "num"   -> e.val
      [] e.kind = "list"  -> <<"[">> \o e.val \o <<"]">>
      [] e.kind = "list2" -> <<"[[">> \o e.val \o <<"]]">>
      [] OTHER            -> <<"{}">>

\* json.dumps on the server's side
RECURSIVE DumpEntries(_)
DumpEntries(doc) ==
    IF doc = << >> THEN << >>
    ELSE Head(doc).path \o <<":">> \o ValTokens(Head(doc)) \o <<",">>
           \o DumpEntries(Tail(doc))
Dumps(doc) == <<"{">> \o DumpEntries(doc) \o <<"}">>

\* the objects a server may answer with; one that was sent key may repeat it
Docs(key) ==
    { << Entry(<<"quota_used">>, "num", <<"3">>),
         Entry(<<"quota_limit">>, "num", <<"9">>) >>,
      << Entry(<<"valid">>, "str", <<"y">>) >>,
      << Entry(<<"compressed">>, "list2", <<"0.5">>),
         Entry(<<"metadata">>, "dict", << >>),
         Entry(<<"metadata", "compressionRatio">>, "num", <<"4">>) >>,
      << Entry(<<"compressed">>, "list2", <<"0.5">>),
         Entry(<<"metadata">>, "str", <<"m">>) >>,
      << Entry(<<"compressed">>, "list2", <<"0.5">>) >>,
      << Entry(<<"compressed">>, "list", << >>),
         Entry(<<"metadata">>, "dict", << >>) >>,
      << Entry(<<"codes">>, "list", <<"1", "2">>),
         Entry(<<"metadata">>, "dict", << >>),
         Entry(<<"metadata", "expectedQuality">>, "num", <<"1">>) >>,
      << Entry(<<"codes">>, "str", <<"c">>) >>,
      << Entry(<<"models">>, "list", <<"{}">>),
         Entry(<<"models", "0", "input_dim">>, "num", <<"1">>),
         Entry(<<"models", "0", "id">>, "str", <<"m", "1">>) >>,
      << Entry(<<"models">>, "list", <<"{}", "{}">>),
         Entry(<<"models", "0", "input_dim">>, "num", <<"2">>),
         Entry(<<"models", "0", "id">>, "str", <<"m", "2">>),
         Entry(<<"models", "1", "input_dim">>, "num", <<"1">>),
         Entry(<<"models", "1", "id">>, "str", << >>) >>,
      << Entry(<<"models">>, "str", <<"x">>) >> }
    \cup
    (IF key = << >> THEN {}
     ELSE { << Entry(<<"quota_used">>, "str", key) >>,
            << Entry(<<"compressed">>, "list2", <<"0.5">>),
               Entry(<<"metadata">>, "dict", << >>),
               Entry(<<"metadata", "compressionRatio">>, "str", key) >>,
            << Entry(<<"codes">>, "list", <<"1">>),
               Entry(<<"metadata">>, "dict", << >>),
               Entry(<<"metadata", "expectedQuality">>, "str", key) >> })

\* bodies that are no JSON; the last one holds the key cut by the 200th byte
Filler(n) == [i \in 1..n |-> "x"]
Texts(key) ==
    { << >>, <<"o", "k">> }
    \cup (IF key = << >> THEN {}
          ELSE { <<"n", "o", " ">> \o key,
                 Filler(BodyCut - Len(key) + 1) \o key })

Bodies(key) == Texts(key) \cup { Dumps(d) : d \in Docs(key) }

ApiStatuses == {200, 401}

\* what the API server may do with a request that carried key
ApiOutcomes(key) ==
    { [transport |-> TRUE, status |-> 0, body |-> << >>] }
    \cup { [transport |-> FALSE, status |-> st, body |-> b] :
             st \in ApiStatuses, b \in Bodies(key) }

\* json.loads(res.body.decode("utf-8")), None when it fails (lines 88-92)
NoPayload == [isdict |-> FALSE, doc |-> << >>]
json_loads(body) ==
    IF \E d \in Docs(ApiKey) : Dumps(d) = body
    THEN [isdict |-> TRUE, doc |-> CHOOSE d \in Docs(ApiKey) : Dumps(d) = body]
    ELSE NoPayload

\* lines 71-93
http_json(o) ==
    LET r == http_request(o)
    IN  [ raised |-> r.raised, exc |-> r.exc, res |-> r.res,
          payload |-> IF ~r.raised /\ r.res.body # << >>
                      THEN json_loads(r.res.body) ELSE NoPayload ]

\* dict membership and dict.get, str() of the value; None prints as "None"
Has(doc, path) == \E i \in 1..Len(doc) : doc[i].path = path
Member(doc, path) == doc[CHOOSE i \in 1..Len(doc) : doc[i].path = path]
Get(doc, path) == IF Has(doc, path) THEN Member(doc, path).val ELSE <<"None">>
IsKind(doc, path, kind) == Has(doc, path) /\ Member(doc, path).kind = kind

\* lines 181-191; << >> stands for None
RECURSIVE PickFrom(_, _, _, _)
PickFrom(doc, i, n, dim) ==
    IF i >= n THEN << >>
    ELSE IF Has(doc, <<"models", ToString(i), "input_dim">>)
            /\ Get(doc, <<"models", ToString(i), "input_dim">>)
                 = <<ToString(dim)>>
         THEN (IF Has(doc, <<"models", ToString(i), "id">>)
               THEN Get(doc, <<"models", ToString(i), "id">>) ELSE << >>)
         ELSE PickFrom(doc, i + 1, n, dim)

pick_model_id_for_dim(models_payload, dim) ==
    IF ~models_payload.isdict THEN << >>
    ELSE IF ~IsKind(models_payload.doc, <<"models">>, "list") THEN << >>
    ELSE PickFrom(models_payload.doc, 0,
                  Len(Get(models_payload.doc, <<"models">>)), dim)

\* lines 96-106
Line(stream, text) == [stream |-> stream, text |-> text]
ok(m, text) == [m EXCEPT !.out = Append(@, Line("stdout", text))]
warn(m, text) ==
    [m EXCEPT !.out = Append(@, Line("stderr", <<"WARNING: ">> \o text))]
fatal(m, text) ==
    [m EXCEPT !.out = Append(@, Line("stderr", <<"ERROR: ">> \o text)),
              !.rc = 2, !.pc = "EXIT"]

\* an exception nobody catches: the interpreter writes the traceback
Uncaught(m, exc) ==
    [m EXCEPT !.out = Append(@, Line("stderr", <<"Traceback ", exc>>)),
              !.rc = 1, !.pc = "EXIT"]

\* one http_request of main: the request, and the status that came back
Sent(m, path, key, o) ==
    [m EXCEPT !.sent = Append(@, [path |-> path, xkey |-> key]),
              !.answers = Append(@, IF o.transport THEN 0 ELSE o.status)]

NotCalled == [NewCall(0) EXCEPT !.pc = "NOT_CALLED"]

\* lines 205-208
AfterHealth(m, o) ==
    LET s == Sent(m, "/health", << >>, o)
        r == http_request(o)
    IN  IF r.raised THEN Uncaught(s, r.exc)
        ELSE IF r.res.status # 200
        THEN fatal(s, <<"GET /health expected 200, got ",
                        ToString(r.res.status), " (body=">>
                      \o Shown(r.res.body) \o <<")">>)
        ELSE [ok(s, <<"OK  GET  /health">>) EXCEPT !.pc = "HEALTH_OK"]

\* lines 210-213
AfterModels(m, o) ==
    LET s == Sent(m, "/api/v1/models", << >>, o)
        r == http_json(o)
    IN  IF r.raised THEN Uncaught(s, r.exc)
        ELSE IF r.res.status # 200
        THEN fatal(s, <<"GET /api/v1/models expected 200, got ",
                        ToString(r.res.status)>>)
        ELSE [ok(s, <<"OK  GET  /api/v1/models">>)
                EXCEPT !.pc = "MODELS_OK", !.models = r.payload]

\* lines 217-218
AfterSampleFailed(m, call) ==
    fatal(m, <<"Failed to fetch AQED vectors from --data-url: ",
               call.err.msg>>)

\* lines 219-223
AfterSampled(m, call) ==
    LET shown == ok(m, <<"OK  DATA  AQED sample: dim=", ToString(call.ret.dim),
                         ", n=", ToString(Len(call.ret.vectors))>>)
        model_id == pick_model_id_for_dim(m.models, call.ret.dim)
        noted == IF model_id = << >>
                 THEN warn(shown, <<"Could not infer model id">>) ELSE shown
    IN  [noted EXCEPT !.pc = "SAMPLED", !.model_id = model_id,
                      !.models = << >>]

\* lines 225-228
AfterNoKey(m) ==
    [warn(m, <<"AQEA_API_KEY not set. Public endpoints verified; ",
               "skipping authenticated checks.">>)
       EXCEPT !.rc = 0, !.pc = "EXIT"]

\* lines 225-237
AfterVerify(m, o) ==
    LET api_key == ReadKey(m.env)
        s == [Sent(m, "/api/v1/auth/verify", api_key, o)
                EXCEPT !.api_key = api_key]
        r == http_json(o)
    IN  IF r.raised THEN Uncaught(s, r.exc)
        ELSE IF r.res.status # 200
        THEN fatal(s, <<"GET /api/v1/auth/verify expected 200, got ",
                        ToString(r.res.status), " (body=">>
                      \o Shown(r.res.body) \o <<")">>)
        ELSE LET v == ok(s, <<"OK  GET  /api/v1/auth/verify">>)
                 q == IF r.payload.isdict
                         /\ (Has(r.payload.doc, <<"quota_limit">>)
                             \/ Has(r.payload.doc, <<"quota_used">>))
                      THEN ok(v, <<"     quota: used=">>
                                   \o Get(r.payload.doc, <<"quota_used">>)
                                   \o <<" limit=">>
                                   \o Get(r.payload.doc, <<"quota_limit">>))
                      ELSE v
             IN  [q EXCEPT !.pc = "VERIFIED"]

\* lines 239-258
AfterBatch(m, o) ==
    LET s == Sent(m, "/api/v1/compress/batch", m.api_key, o)
        r == http_json(o)
        bp == r.payload
    IN  IF r.raised THEN Uncaught(s, r.exc)
        ELSE IF r.res.status # 200
        THEN fatal(s, <<"POST /api/v1/compress/batch expected 200, got ",
                        ToString(r.res.status), " (body=">>
                      \o Shown(r.res.body) \o <<")">>)
        ELSE IF ~bp.isdict \/ ~Has(bp.doc, <<"compressed">>)
                \/ ~Has(bp.doc, <<"metadata">>)
        THEN fatal(s, <<"POST /api/v1/compress/batch returned unexpected ",
                        "JSON shape">>)
        ELSE IF ~IsKind(bp.doc, <<"compressed">>, "list2")
        THEN fatal(s, <<"Compressed vectors missing/invalid">>)
        ELSE LET b == ok(s, <<"OK  POST /api/v1/compress/batch  out_dim=",
                              ToString(Len(Get(bp.doc, <<"compressed">>)))>>)
                 t == IF IsKind(bp.doc, <<"metadata">>, "dict")
                      THEN ok(b, <<"     ratio=">>
                                   \o Get(bp.doc, <<"metadata", "compressionRatio">>)
                                   \o <<" originalDim=">>
                                   \o Get(bp.doc, <<"metadata", "originalDim">>)
                                   \o <<" compressedDim=">>
                                   \o Get(bp.doc, <<"metadata", "compressedDim">>))
                      ELSE b
             IN  [t EXCEPT !.pc = "BATCHED"]

\* lines 285-286
Passed(m) ==
    [ok(m, <<"DONE: smoke test passed.">>) EXCEPT !.rc = 0, !.pc = "EXIT"]

\* lines 261-262
AfterPqSkipped(m) ==
    Passed(warn(m, <<"Skipping /api/v1/compress-pq because model id could ",
                     "not be inferred for the dataset dim.">>))

\* lines 264-286
AfterPq(m, o) ==
    LET s == Sent(m, "/api/v1/compress-pq", m.api_key, o)
        r == http_json(o)
        pp == r.payload
    IN  IF r.raised THEN Uncaught(s, r.exc)
        ELSE IF r.res.status = 200 /\ pp.isdict
        THEN LET a == ok(s, <<"OK  POST /api/v1/compress-pq  codes=">>
                            \o (IF IsKind(pp.doc, <<"codes">>, "list")
                                THEN <<ToString(Len(Get(pp.doc, <<"codes">>)))>>
                                ELSE <<"n/a">>)
                            \o <<"  model=">> \o m.model_id)
                 e == IF ~Has(pp.doc, <<"metadata">>)
                         \/ IsKind(pp.doc, <<"metadata">>, "dict")
                      THEN ok(a, <<"     expectedQuality=">>
                                   \o Get(pp.doc, <<"metadata", "expectedQuality">>)
                                   \o <<" ratio=">>
                                   \o Get(pp.doc, <<"metadata", "compressionRatio">>))
                      ELSE a
             IN  Passed(e)
        ELSE Passed(warn(s, <<"/api/v1/compress-pq did not succeed (HTTP ",
                              ToString(r.res.status), ").">>))

Health ==
    /\ main.pc = "START"
    /\ \E o \in ApiOutcomes(<< >>) : main' = AfterHealth(main, o)
    /\ UNCHANGED <<server, calls>>

Models ==
    /\ main.pc = "HEALTH_OK"
    /\ \E o \in ApiOutcomes(<< >>) : main' = AfterModels(main, o)
    /\ UNCHANGED <<server, calls>>

\* line 216: the call of fetch_aqed_sample_vectors
SampleCall ==
    /\ main.pc = "MODELS_OK"
    /\ calls' = [c \in CallIds |-> NewCall(main.sample)]
    /\ main' = [main EXCEPT !.pc = "SAMPLING"]
    /\ UNCHANGED server

SampleFailed ==
    /\ main.pc = "SAMPLING"
    /\ \E c \in CallIds :
         /\ calls[c].pc = "FAILED"
         /\ main' = AfterSampleFailed(main, calls[c])
    /\ UNCHANGED <<server, calls>>

Sampled ==
    /\ main.pc = "SAMPLING"
    /\ \E c \in CallIds :
         /\ calls[c].pc = "DONE"
         /\ main' = AfterSampled(main, calls[c])
    /\ UNCHANGED <<server, calls>>

NoKey ==
    /\ main.pc = "SAMPLED"
    /\ ReadKey(main.env) = << >>
    /\ main' = AfterNoKey(main)
    /\ UNCHANGED <<server, calls>>

Verify ==
    /\ main.pc = "SAMPLED"
    /\ ReadKey(main.env) # << >>
    /\ \E o \in ApiOutcomes(ReadKey(main.env)) : main' = AfterVerify(main, o)
    /\ UNCHANGED <<server, calls>>

Batch ==
    /\ main.pc = "VERIFIED"
    /\ \E o \in ApiOutcomes(main.api_key) : main' = AfterBatch(main, o)
    /\ UNCHANGED <<server, calls>>

NoPq ==
    /\ main.pc = "BATCHED"
    /\ ~main.pq
    /\ main' = Passed(main)
    /\ UNCHANGED <<server, calls>>

PqSkipped ==
    /\ main.pc = "BATCHED"
    /\ main.pq /\ main.model_id = << >>
    /\ main' = AfterPqSkipped(main)
    /\ UNCHANGED <<server, calls>>

Pq ==
    /\ main.pc = "BATCHED"
    /\ main.pq /\ main.model_id # << >>
    /\ \E o \in ApiOutcomes(main.api_key) : main' = AfterPq(main, o)
    /\ UNCHANGED <<server, calls>>

\* the data files of the runs of main
MainFiles ==
    { MkFile(Magic, 1, 2, 1, 0, 1), MkFile(BadMagic, 1, 1, 1, 0, 1),
      MkFile(Magic, 1, 1, 1, 1, FLAG_HAS_AQEA) }

InitMain ==
    /\ server \in [1..1 -> MainFiles]
    /\ calls = [c \in 1..1 |-> NotCalled]
    /\ \E env \in Environments, pq \in BOOLEAN :
         main = [NotRunning EXCEPT !.pc = "START", !.env = env, !.pq = pq,
                                   !.sample = DefaultSample]

NextMain ==
    \/ Health
    \/ Models
    \/ SampleCall
    \/ DoHeaderFetch
    \/ DoHeaderValidate
    \/ DoSectionMissing
    \/ DoPayloadFetch
    \/ DoDecodeRecord
    \/ DoDecodeDone
    \/ DoReturn
    \/ SampleFailed
    \/ Sampled
    \/ NoKey
    \/ Verify
    \/ Batch
    \/ NoPq
    \/ PqSkipped
    \/ Pq

SpecMain == InitMain /\ [][NextMain]_vars

\* ============================================================ the claims
\* The error taxonomy of the design, by the place that raises
TransportMsgs == {"transport"}
FetchMsgs == {"header fetch failed", "header too small", "range fetch failed",
              "range truncated"}
FormatMsgs == {"header requires at least 64 bytes", "missing magic bytes",
               "unsupported version", "invalid header n/dOrig",
               "no embeddings present", "no original embeddings section"}

\* The header fields as the bytes of the header answer spell them out
HdrGot(k) == Len(k.head.body) >= 64
HdrTagOk(k) == SubSeq(k.head.body, 1, 4) = Magic
HdrField(k, off) ==
    ((k.head.body[off + 4] * 256 + k.head.body[off + 3]) * 256
        + k.head.body[off + 2]) * 256 + k.head.body[off + 1]
HdrVersion(k) == HdrField(k, 4)
HdrN(k) == HdrField(k, 8)
HdrDOrig(k) == HdrField(k, 12)
HdrDAqea(k) == HdrField(k, 16)
HdrFlags(k) == HdrField(k, 20)
HdrBit0(k) == HdrFlags(k) % 2 = 1
HdrBit1(k) == (HdrFlags(k) \div 2) % 2 = 1

\* tag, version, n and dOrig are acceptable
HdrBasicOk(k) ==
    /\ StatusOk(k.head.status) /\ HdrGot(k) /\ HdrTagOk(k)
    /\ HdrVersion(k) = 1 /\ HdrN(k) >= 1 /\ HdrDOrig(k) >= 1

\* the call is past header validation and the section check
PastSectionCheck(k) ==
    k.pc \notin {"START", "HEADER_FETCHED", "HEADER_VALIDATED"}

PayloadEnd(take, dim) == 64 + take * dim * 4 - 1

\* take as the design states it
ClampedTake(requestedCount, n) ==
    IF requestedCount >= 1
    THEN (IF requestedCount <= n THEN requestedCount ELSE n)
    ELSE 1

\* C1 as stated: with bit 0 set the dimension is dOrig, with only bit 1 set
\* the call goes on with dAqea as its dimension, with neither bit set it
\* fails with a format error.
C1_Original ==
    \A c \in CallIds :
      LET k == calls[c] IN
        (HdrBasicOk(k) /\ PastSectionCheck(k)) =>
          /\ HdrBit0(k) =>
               /\ k.err.msg \notin FormatMsgs
               /\ Len(k.requests) = 2
               /\ k.requests[2].hi = PayloadEnd(k.take, HdrDOrig(k))
          /\ (~HdrBit0(k) /\ HdrBit1(k) /\ HdrDAqea(k) >= 1) =>
               /\ k.err.msg \notin FormatMsgs
               /\ Len(k.requests) = 2
               /\ k.requests[2].hi = PayloadEnd(k.take, HdrDAqea(k))
          /\ (~HdrBit0(k) /\ ~HdrBit1(k)) =>
               /\ k.pc = "FAILED" /\ k.err.msg \in FormatMsgs

\* C1 amended: with bit 0 set the dimension is dOrig (in the payload range
\* and in the value returned); with bit 0 clear the call fails with a format
\* error whether or not bit 1 is set, no payload request is sent and dAqea
\* is never the dimension.
C1_EffectiveDimension ==
    \A c \in CallIds :
      LET k == calls[c] IN
        (HdrBasicOk(k) /\ PastSectionCheck(k)) =>
          /\ HdrBit0(k) =>
               /\ k.err.msg \notin FormatMsgs
               /\ Len(k.requests) = 2
               /\ k.requests[2].hi = PayloadEnd(k.take, HdrDOrig(k))
               /\ k.pc = "DONE" => k.ret.dim = HdrDOrig(k)
          /\ ~HdrBit0(k) =>
               /\ k.pc = "FAILED"
               /\ k.err.exc = "ValueError"
               /\ k.err.msg =
                    IF HdrBit1(k) /\ HdrDAqea(k) >= 1
                    THEN "no original embeddings section"
                    ELSE "no embeddings present"
               /\ Len(k.requests) = 1

C1_Witness ==
    \E c \in CallIds :
      LET k == calls[c] IN
        /\ HdrBasicOk(k) /\ ~HdrBit0(k) /\ HdrBit1(k) /\ HdrDAqea(k) >= 1
        /\ k.pc = "FAILED"
        /\ k.err.msg = "no original embeddings section"

\* C2: the number of records fetched and decoded is
\* take = min(max(1, requestedCount), n): min(requestedCount, n) for
\* requestedCount >= 1, 1 for requestedCount < 1, so 1 <= take <= n.
C2_TakeClamped ==
    \A c \in CallIds :
      LET k == calls[c] IN
        Len(k.requests) = 2 =>
          /\ k.take = ClampedTake(k.n_vectors, HdrN(k))
          /\ 1 <= k.take /\ k.take <= HdrN(k)
          /\ k.requests[2].hi = PayloadEnd(ClampedTake(k.n_vectors, HdrN(k)),
                                           k.d_orig)
          /\ Len(k.vectors) <= k.take
          /\ k.pc \in {"RECORDS_DECODED", "DONE"} =>
               Len(k.vectors) = ClampedTake(k.n_vectors, HdrN(k))
          /\ k.pc = "DONE" =>
               Len(k.ret.vectors) = ClampedTake(k.n_vectors, HdrN(k))

\* requestedCount=1000 against n=100 has run to its end with 100 records
C2_Witness ==
    \E c \in CallIds :
       /\ calls[c].pc = "DONE" /\ calls[c].n_vectors = 1000
       /\ HdrN(calls[c]) = 100 /\ Len(calls[c].ret.vectors) = 100

\* C3 as stated: the payload request asks for exactly bytes 0..payloadEnd
\* with payloadEnd = 64 + take*dimension*4 - 1, starting at offset 0, and
\* n=100, dOrig=8, flags=1, requestedCount=8 gives range end 2111.
C3_Original ==
    \A c \in CallIds :
      LET k == calls[c] IN
        Len(k.requests) >= 2 =>
          /\ k.requests[2].lo = 0
          /\ k.requests[2].hi =
               64 + ClampedTake(k.n_vectors, HdrN(k)) * HdrDOrig(k) * 4 - 1
          /\ (HdrN(k) = 100 /\ HdrDOrig(k) = 8 /\ HdrFlags(k) = 1
                /\ k.n_vectors = 8) => k.requests[2].hi = 2111

\* C3 amended: the payload request asks for exactly bytes 0..payloadEnd with
\* payloadEnd = 64 + take*dimension*4 - 1, starting at offset 0 and not at
\* 64; n=100, dOrig=8, flags=1, requestedCount=8 gives range end 319.
C3_PayloadRange ==
    \A c \in CallIds :
      LET k == calls[c] IN
        Len(k.requests) >= 2 =>
          /\ k.requests[2].lo = 0
          /\ k.requests[2].hi =
               64 + ClampedTake(k.n_vectors, HdrN(k)) * HdrDOrig(k) * 4 - 1
          /\ k.byte_len = k.requests[2].hi + 1
          /\ (HdrN(k) = 100 /\ HdrDOrig(k) = 8 /\ HdrFlags(k) = 1
                /\ k.n_vectors = 8) => k.requests[2].hi = 319

C3_Witness ==
    \E c \in CallIds :
      LET k == calls[c] IN
        /\ Len(k.requests) = 2
        /\ HdrN(k) = 100 /\ HdrDOrig(k) = 8 /\ HdrFlags(k) = 1
        /\ k.n_vectors = 8
        /\ k.requests[2] = [lo |-> 0, hi |-> 319]


\* an answer has come back for the header request / the payload request
HeadAnswered(k) == k.head # NoResult
ChunkAnswered(k) == k.chunk # NoResult

\* C4: for each of the two fetches, an answer whose status is neither 200
\* nor 206, or whose body is shorter than required (64 bytes, payloadEnd+1
\* bytes), fails the call with a fetch error; a truncated payload produces
\* no vector list, not even a partial one, and a failed header fetch is
\* followed by no payload request.
C4_FetchErrors ==
    \A c \in CallIds :
      LET k == calls[c] IN
        /\ (HeadAnswered(k)
              /\ (k.head.status \notin {200, 206} \/ Len(k.head.body) < 64)) =>
             /\ k.pc = "FAILED"
             /\ k.err.exc = "ValueError" /\ k.err.msg \in FetchMsgs
             /\ Len(k.requests) = 1
             /\ k.vectors = << >> /\ k.ret = NoReturn
        /\ (ChunkAnswered(k)
              /\ (k.chunk.status \notin {200, 206}
                    \/ Len(k.chunk.body) < k.requests[2].hi + 1)) =>
             /\ k.pc = "FAILED"
             /\ k.err.exc = "ValueError" /\ k.err.msg \in FetchMsgs
             /\ k.vectors = << >> /\ k.ret = NoReturn

\* a payload answer with a good status and one byte too few
C4_Witness ==
    \E c \in CallIds :
      LET k == calls[c] IN
        /\ ChunkAnswered(k) /\ k.chunk.status = 206
        /\ Len(k.chunk.body) = k.requests[2].hi
        /\ k.pc = "FAILED" /\ k.err.msg = "range truncated"

\* the float32 whose four little-endian bytes start at byte p of body
FloatOfBytes(b0, b1, b2, b3) ==
    LET sign == IF b3 >= 128 THEN 1 ELSE 0
        top == IF b2 >= 128 THEN 1 ELSE 0
    IN  [ s |-> sign, e |-> 2 * (b3 - 128 * sign) + top,
          m |-> b0 + 256 * b1 + 65536 * (b2 - 128 * top) ]

FloatAt(body, p) ==
    FloatOfBytes(body[p + 1], body[p + 2], body[p + 3], body[p + 4])

\* C5: a call ends either failed, returning nothing, or returning
\* (dimension, vectors) with dimension positive, exactly take vectors of
\* exactly dimension values each, the i-th decoded from bytes
\* 64 + i*dimension*4 .. 64 + (i+1)*dimension*4 - 1 of the payload answer;
\* fewer than take vectors are never returned.
C5_AllOrNothing ==
    \A c \in CallIds :
      LET k == calls[c] IN
        /\ k.pc \notin {"DONE", "FAILED"} => (ENABLED Next /\ k.ret = NoReturn)
        /\ k.pc = "FAILED" => (k.ret = NoReturn /\ k.err # NoError)
        /\ k.pc = "DONE" =>
             /\ k.err = NoError
             /\ k.ret.dim >= 1
             /\ Len(k.ret.vectors) = ClampedTake(k.n_vectors, HdrN(k))
             /\ \A i \in 1..Len(k.ret.vectors) :
                  /\ Len(k.ret.vectors[i]) = k.ret.dim
                  /\ \A j \in 1..k.ret.dim :
                       k.ret.vectors[i][j] =
                         FloatAt(k.chunk.body,
                                 64 + (i - 1) * k.ret.dim * 4 + (j - 1) * 4)

\* a call has returned several records of several values
C5_Witness ==
    \E c \in CallIds :
       /\ calls[c].pc = "DONE" /\ calls[c].ret.dim = 2
       /\ Len(calls[c].ret.vectors) = 2
       /\ calls[c].ret.vectors[1] # calls[c].ret.vectors[2]

\* what went wrong in a failed call, read off the answers it got
NoAnswer(k) ==
    \/ Len(k.requests) = 1 /\ ~HeadAnswered(k)
    \/ Len(k.requests) = 2 /\ ~ChunkAnswered(k)
BadAnswer(k) ==
    \/ Len(k.requests) = 1 /\ HeadAnswered(k)
         /\ (~StatusOk(k.head.status) \/ Len(k.head.body) < 64)
    \/ Len(k.requests) = 2 /\ ChunkAnswered(k)
         /\ (~StatusOk(k.chunk.status) \/ Len(k.chunk.body) < k.byte_len)
BadHeader(k) ==
    /\ Len(k.requests) = 1 /\ HeadAnswered(k)
    /\ StatusOk(k.head.status) /\ HdrGot(k)
    /\ ~(HdrBasicOk(k) /\ HdrBit0(k))

Cause(k) ==
    IF NoAnswer(k) THEN "transport"
    ELSE IF BadAnswer(k) THEN "fetch"
    ELSE IF BadHeader(k) THEN "format"
    ELSE "none"

\* C6 as stated: the error kind alone tells which of the three causes
\* (transport, fetch, format) made a call fail: two failures of the same
\* kind have the same cause.
C6_Original ==
    \A c1, c2 \in CallIds :
      (calls[c1].pc = "FAILED" /\ calls[c2].pc = "FAILED"
         /\ calls[c1].err.exc = calls[c2].err.exc) =>
        Cause(calls[c1]) = Cause(calls[c2])

\* C6 amended: a failure is reported as one of two exception kinds: a
\* transport failure leaves http_request as the underlying URLError, a
\* fetch failure and a format failure are both a ValueError, and it is the
\* message of the ValueError that tells these two causes apart.
C6_ErrorKinds ==
    \A c \in CallIds :
      LET k == calls[c] IN
        k.pc = "FAILED" =>
          /\ Cause(k) \in {"transport", "fetch", "format"}
          /\ k.err.exc = "URLError" <=> Cause(k) = "transport"
          /\ k.err.exc = "ValueError" <=> Cause(k) \in {"fetch", "format"}
          /\ k.err.msg \in TransportMsgs <=> Cause(k) = "transport"
          /\ k.err.msg \in FetchMsgs <=> Cause(k) = "fetch"
          /\ k.err.msg \in FormatMsgs <=> Cause(k) = "format"

\* one call failed on its fetch, the other on the header's format
C6_Witness ==
    \E c1, c2 \in CallIds :
       /\ calls[c1].pc = "FAILED" /\ calls[c1].err.msg \in FetchMsgs
       /\ calls[c2].pc = "FAILED" /\ calls[c2].err.msg \in FormatMsgs
       /\ calls[c1].err.exc = calls[c2].err.exc


\* C7: a successful call has sent exactly two requests, whatever n is:
\* first bytes 0..63, then, only once that answer is in and its header has
\* been validated, bytes 0..payloadEnd; no call sends more than two.
C7_TwoRequests ==
    \A c \in CallIds :
      LET k == calls[c] IN
        /\ Len(k.requests) <= 2
        /\ Len(k.requests) = 0 <=> k.pc = "START"
        /\ Len(k.requests) >= 1 => k.requests[1] = [lo |-> 0, hi |-> 63]
        /\ k.pc \in {"HEADER_FETCHED", "HEADER_VALIDATED"} =>
             Len(k.requests) = 1
        /\ Len(k.requests) = 2 =>
             /\ HdrBasicOk(k) /\ HdrBit0(k)
             /\ k.total_n = HdrN(k) /\ k.d_orig = HdrDOrig(k)
             /\ k.requests[2] = [lo |-> 0,
                                 hi |-> PayloadEnd(k.take, HdrDOrig(k))]
        /\ k.pc \in {"PAYLOAD_FETCHED", "RECORDS_DECODED", "DONE"} =>
             Len(k.requests) = 2

\* the 100-record container and a smaller one have both been read with
\* two requests
C7_Witness ==
    \E c \in CallIds :
       /\ calls[c].pc = "DONE" /\ Len(calls[c].requests) = 2
       /\ HdrN(calls[c]) = 100

Phases ==
    << "START", "HEADER_FETCHED", "HEADER_VALIDATED", "PAYLOAD_FETCHED",
       "RECORDS_DECODED", "DONE" >>

PhaseNo(pc) == CHOOSE i \in 1..Len(Phases) : Phases[i] = pc

\* C8: the phases advance only in the order START, HEADER_FETCHED,
\* HEADER_VALIDATED, PAYLOAD_FETCHED, RECORDS_DECODED, DONE and never go
\* back; an error takes a call that is not over to FAILED; DONE and FAILED
\* are absorbing: after a failure no request is sent, nothing is retried
\* and DONE is not reached.
C8_PhaseOrder ==
    [][ \A c \in CallIds :
          LET k == calls[c]
              k2 == calls'[c]
          IN  /\ k.pc \in {"DONE", "FAILED"} => k2 = k
              /\ (k.pc # k2.pc /\ k2.pc # "FAILED") =>
                   PhaseNo(k2.pc) = PhaseNo(k.pc) + 1
              /\ k2.err # k.err => (k.err = NoError /\ k2.pc = "FAILED")
              /\ k2.pc = "FAILED" => k2.err # NoError
              /\ k2.pc = "DONE" => k2.err = NoError
      ]_vars

\* a call has failed after its header had been validated
C8_Witness ==
    \E c \in CallIds :
       /\ calls[c].pc = "FAILED" /\ calls[c].total_n >= 1
       /\ Len(calls[c].requests) = 2

\* C9: validation of the 64 header bytes fails with a format error when the
\* tag is not the magic literal (message: missing magic), when the tag is
\* right and the version is not 1 (message: unsupported version), when
\* n <= 0 or dOrig <= 0 (also with only the alternate bit set and dAqea
\* positive); a header with the tag, version 1, n >= 1, dOrig >= 1 and bit 0
\* set is accepted.
C9_HeaderValidation ==
    \A c \in CallIds :
      LET k == calls[c] IN
        (k.pc \notin {"START", "HEADER_FETCHED"}
           /\ StatusOk(k.head.status) /\ HdrGot(k)) =>
          /\ (~HdrTagOk(k) \/ HdrVersion(k) # 1 \/ HdrN(k) <= 0
                \/ HdrDOrig(k) <= 0) =>
               /\ k.pc = "FAILED" /\ k.err.exc = "ValueError"
               /\ k.err.msg \in FormatMsgs
               /\ Len(k.requests) = 1
          /\ ~HdrTagOk(k) => k.err.msg = "missing magic bytes"
          /\ (HdrTagOk(k) /\ HdrVersion(k) # 1) =>
               k.err.msg = "unsupported version"
          /\ (HdrTagOk(k) /\ HdrVersion(k) = 1
                /\ (HdrN(k) <= 0 \/ HdrDOrig(k) <= 0)) =>
               k.err.msg = "invalid header n/dOrig"
          /\ (HdrBasicOk(k) /\ HdrBit0(k)) =>
               /\ k.err.msg \notin FormatMsgs
               /\ k.header_size = 64 /\ k.total_n = HdrN(k)
               /\ k.d_orig = HdrDOrig(k) /\ k.flags = HdrFlags(k)

\* dOrig = 0 is refused although the alternate section is there
C9_Witness ==
    \E c \in CallIds :
      LET k == calls[c] IN
        /\ StatusOk(k.head.status) /\ HdrGot(k) /\ HdrTagOk(k)
        /\ HdrVersion(k) = 1 /\ HdrN(k) >= 1 /\ HdrDOrig(k) = 0
        /\ HdrFlags(k) = 2 /\ HdrDAqea(k) >= 1
        /\ k.pc = "FAILED" /\ k.err.msg = "invalid header n/dOrig"

\* the answers of a server that honours Range: 206 and the bytes asked for
RangeAware(k, f) ==
    /\ k.head = [status |-> 206, body |-> Slice(f, 0, 63)]
    /\ Len(k.requests) = 2 =>
         k.chunk = [status |-> 206, body |-> Slice(f, 0, k.requests[2].hi)]

\* the answers of a server that ignores Range in one fetch or in both:
\* 200 and the whole file there, 206 and the bytes asked for elsewhere
RangeIgnored(k, f) ==
    /\ \/ k.head = [status |-> 200, body |-> f]
       \/ k.head = [status |-> 206, body |-> Slice(f, 0, 63)]
    /\ Len(k.requests) = 2 =>
         \/ k.chunk = [status |-> 200, body |-> f]
         \/ k.chunk = [status |-> 206, body |-> Slice(f, 0, k.requests[2].hi)]
    /\ \/ k.head.status = 200
       \/ Len(k.requests) = 2 /\ k.chunk.status = 200

Over(k) == k.pc \in {"DONE", "FAILED"}

\* C10: a server that ignores Range and answers either or both fetches
\* with 200 and the whole file is tolerated: if the file has at least
\* payloadEnd+1 bytes the call succeeds and returns the same
\* (dimension, vectors) as against a server answering 206 with exactly the
\* bytes asked for.
C10_FullResponseTolerated ==
    \A c1, c2 \in CallIds :
      LET a == calls[c1]
          b == calls[c2]
          f == server[c1]
      IN  (server[c2] = f /\ a.n_vectors = b.n_vectors
             /\ Over(a) /\ Over(b)
             /\ RangeAware(a, f) /\ RangeIgnored(b, f)) =>
            /\ a.pc = b.pc /\ a.ret = b.ret /\ a.err = b.err
            /\ a.requests = b.requests
            /\ (Len(a.requests) = 2 /\ Len(f) >= a.requests[2].hi + 1) =>
                 (b.pc = "DONE" /\ b.ret.dim >= 1
                    /\ Len(b.ret.vectors) = b.take)

\* one call read the file through 206 answers, the other through 200
\* answers holding the whole file, which is longer than what was asked for
C10_Witness ==
    \E c1, c2 \in CallIds :
      LET a == calls[c1]
          b == calls[c2]
          f == server[c1]
      IN  /\ server[c2] = f /\ a.n_vectors = b.n_vectors
          /\ a.pc = "DONE" /\ b.pc = "DONE"
          /\ RangeAware(a, f) /\ RangeIgnored(b, f)
          /\ b.head.status = 200 /\ b.chunk.status = 200
          /\ Len(b.chunk.body) > b.byte_len
          /\ Len(b.ret.vectors) = 2


\* the message a call ends with, by its own n_vectors and the answers it
\* got alone ("" when it succeeds)
ExpectedMsg(k) ==
    IF ~HeadAnswered(k) THEN "transport"
    ELSE IF k.head.status \notin {200, 206} THEN "header fetch failed"
    ELSE IF Len(k.head.body) < 64 THEN "header too small"
    ELSE IF ~HdrTagOk(k) THEN "missing magic bytes"
    ELSE IF HdrVersion(k) # 1 THEN "unsupported version"
    ELSE IF HdrN(k) <= 0 \/ HdrDOrig(k) <= 0 THEN "invalid header n/dOrig"
    ELSE IF ~HdrBit0(k) /\ ~(HdrBit1(k) /\ HdrDAqea(k) >= 1)
         THEN "no embeddings present"
    ELSE IF ~HdrBit0(k) THEN "no original embeddings section"
    ELSE IF ~ChunkAnswered(k) THEN "transport"
    ELSE IF k.chunk.status \notin {200, 206} THEN "range fetch failed"
    ELSE IF Len(k.chunk.body)
              < 64 + ClampedTake(k.n_vectors, HdrN(k)) * HdrDOrig(k) * 4
         THEN "range truncated"
    ELSE ""

\* the value a call returns, by its own n_vectors and the answers it got
ExpectedReturn(k) ==
    [ dim |-> HdrDOrig(k),
      vectors |->
        [ i \in 1..ClampedTake(k.n_vectors, HdrN(k)) |->
            [ j \in 1..HdrDOrig(k) |->
                FloatAt(k.chunk.body,
                        64 + (i - 1) * HdrDOrig(k) * 4 + (j - 1) * 4) ] ] ]

OwnOutcome(k) ==
    /\ Len(k.requests) >= 1 /\ k.requests[1] = [lo |-> 0, hi |-> 63]
    /\ k.err.msg = ExpectedMsg(k)
    /\ k.pc = "DONE" <=> ExpectedMsg(k) = ""
    /\ k.pc = "DONE" => k.ret = ExpectedReturn(k)
    /\ k.pc = "FAILED" => k.ret = NoReturn

\* C11: calls share no mutable state and cache nothing: however the steps
\* of two calls (for the same resource or for different ones) interleave,
\* a step of one call leaves the other call and the resource untouched, a
\* call that is over has the outcome that its own n_vectors and the answers
\* it got itself give, and a call past validation holds the header of its
\* own header answer.
C11_CallsIndependent ==
    /\ [] (\A c \in CallIds :
             LET k == calls[c] IN
               /\ Over(k) => OwnOutcome(k)
               /\ k.pc \in {"HEADER_VALIDATED", "PAYLOAD_FETCHED",
                            "RECORDS_DECODED", "DONE"} =>
                    /\ k.total_n = HdrN(k) /\ k.d_orig = HdrDOrig(k)
                    /\ k.flags = HdrFlags(k))
    /\ [][ /\ server' = server
           /\ \A c, d \in CallIds :
                (calls'[c] # calls[c] /\ d # c) => calls'[d] = calls[d]
       ]_vars

\* both calls are over, on different resources, one failed on the bad
\* header it was served and the other returned its records
C11_Witness ==
    \E c, d \in CallIds :
       /\ c # d /\ server[c] # server[d]
       /\ calls[c].pc = "FAILED" /\ calls[c].err.msg = "missing magic bytes"
       /\ calls[d].pc = "DONE" /\ Len(calls[d].ret.vectors) >= 1

\* both calls are over on the same resource with different outcomes
C11_WitnessSame ==
    \E c, d \in CallIds :
       /\ c # d /\ server[c] = server[d]
       /\ calls[c].pc = "FAILED" /\ calls[d].pc = "DONE"


\* the HttpResult a call holds for its i-th request
ResultOf(k, i) == IF i = 1 THEN k.head ELSE k.chunk

\* C12: http_request sends one request per call and does not retry: each
\* request of a call met one outcome on the wire.  Whatever the server
\* answered, 404, 416 and 500 included, its status and body come back as a
\* value, with no check of the body's length against the range; the call
\* fails, with the underlying URLError, only when there was no answer.
C12_TransportReturnsAnswer ==
    \A c \in CallIds :
      LET k == calls[c] IN
        /\ Len(k.wire) = Len(k.requests)
        /\ \A i \in 1..Len(k.wire) :
             IF k.wire[i].transport
             THEN /\ ResultOf(k, i) = NoResult
                  /\ i = Len(k.wire)
                  /\ k.pc = "FAILED" /\ k.err.exc = "URLError"
             ELSE /\ ResultOf(k, i) = [status |-> k.wire[i].status,
                                       body |-> k.wire[i].body]
                  /\ i = Len(k.wire) => k.err.exc # "URLError"
        /\ k.err.exc \in {"", "URLError", "ValueError"}

\* a 404 whose body is longer than the 64 bytes asked for came back as it was
C12_Witness ==
    \E c \in CallIds :
      LET k == calls[c] IN
        /\ Len(k.wire) = 1 /\ ~k.wire[1].transport
        /\ k.wire[1].status = 404 /\ Len(k.wire[1].body) > 64
        /\ k.head = [status |-> 404, body |-> k.wire[1].body]


\* the server served the container f to both requests of call k, as the
\* range asked for or as the whole file
Served(k, f) ==
    /\ HeadAnswered(k) /\ k.head.status \in {200, 206}
    /\ k.head.body \in {Slice(f, 0, 63), f}
    /\ ChunkAnswered(k) /\ k.chunk.status \in {200, 206}
    /\ k.chunk.body \in {Slice(f, 0, k.requests[2].hi), f}

\* the vectors of shape sh whose values encode to the bytes of f after the
\* header, found by encoding each candidate value
WrittenAt(f, p) == { v \in Float32s : EncF32(v) = SubSeq(f, p + 1, p + 4) }
Written(f, sh) ==
    [ i \in 1..sh[1] |-> [ j \in 1..sh[2] |->
        CHOOSE v \in Float32s :
          v \in WrittenAt(f, 64 + ((i - 1) * sh[2] + (j - 1)) * 4) ] ]

\* the vectors the container served to call c was written from
RoundTripOf(c) ==
    IF ~Served(calls[c], server[c]) THEN {}
    ELSE { vs \in { Written(server[c], sh) :
                      sh \in { x \in RoundShapes :
                                /\ Len(server[c]) = 64 + x[1] * x[2] * 4
                                /\ \A q \in 0..(x[1] * x[2] - 1) :
                                     WrittenAt(server[c], 64 + q * 4) # {} } } :
             server[c] = MkContainer(vs) }

\* a value comes back as encoded, or, when it was encoded as a signalling
\* NaN, possibly with its quiet bit set
CameBack(v, w) == w = v \/ (IsSignalling(v) /\ w = PyFloat(v, TRUE))

\* C13 as stated: every value comes back bit-for-bit.
C13_Original ==
    \A c \in CallIds :
      LET k == calls[c] IN
        Over(k) =>
          \A vs \in RoundTripOf(c) :
            /\ k.pc = "DONE"
            /\ k.ret = [dim |-> Len(vs[1]), vectors |-> vs]

\* C13: round trip.  A container written from k vectors of d values and
\* served to a call asking for k records comes back as dimension d and k
\* vectors of d values in the same order, each value with the bits it was
\* encoded from, except that a signalling NaN may come back quiet.
C13_RoundTrip ==
    \A c \in CallIds :
      LET k == calls[c] IN
        Over(k) =>
          \A vs \in RoundTripOf(c) :
            /\ k.pc = "DONE"
            /\ k.ret.dim = Len(vs[1])
            /\ Len(k.ret.vectors) = Len(vs)
            /\ \A i \in 1..Len(vs) :
                 /\ Len(k.ret.vectors[i]) = Len(vs[1])
                 /\ \A j \in 1..Len(vs[1]) :
                      CameBack(vs[i][j], k.ret.vectors[i][j])

\* two records of two values came back; the first value, written as a
\* signalling NaN, came back quiet, and the last, -2.5, as written
C13_Witness ==
    \E c \in CallIds :
      LET k == calls[c] IN
        /\ k.pc = "DONE"
        /\ \E vs \in RoundTripOf(c) :
             /\ Len(vs) = 2 /\ Len(vs[1]) = 2
             /\ IsSignalling(vs[1][1])
             /\ k.ret.vectors[1][1] = PyFloat(vs[1][1], TRUE)
             /\ k.ret.vectors[1][1] # vs[1][1]
             /\ vs[2][2] = [s |-> 1, e |-> 128, m |-> 2097152]
             /\ k.ret.vectors[2][2] = vs[2][2]


\* C14: the read cursor never overruns the payload answer.  With i records
\* decoded so far, the cursor stands at 64 + i*dimension*4; while i < take
\* the next record ends within payloadEnd + 1 <= length of the body; after
\* the last step the cursor is payloadEnd + 1 and exactly take records are
\* decoded; unpack_from never fails for want of bytes.
C14_CursorInBounds ==
    \A c \in CallIds :
      LET k == calls[c]
          dim == HdrDOrig(k)
          take == ClampedTake(k.n_vectors, HdrN(k))
          i == Len(k.vectors)
      IN  /\ k.err.exc # "struct.error"
          /\ k.pc = "PAYLOAD_FETCHED" =>
               /\ i <= take
               /\ k.offset = 64 + i * dim * 4
               /\ PayloadEnd(take, dim) + 1 <= Len(k.chunk.body)
               /\ i < take => k.offset + dim * 4 <= PayloadEnd(take, dim) + 1
          /\ k.pc \in {"RECORDS_DECODED", "DONE"} =>
               /\ i = take
               /\ k.offset = PayloadEnd(take, dim) + 1
               /\ k.offset <= Len(k.chunk.body)

\* the second of two records of two values is about to be read from a body
\* that ends with it, while the file holds more
C14_Witness ==
    \E c \in CallIds :
      LET k == calls[c] IN
        /\ k.pc = "PAYLOAD_FETCHED"
        /\ Len(k.vectors) = 1 /\ ClampedTake(k.n_vectors, HdrN(k)) = 2
        /\ HdrDOrig(k) = 2 /\ k.offset = 72
        /\ Len(k.chunk.body) = 80 /\ Len(server[c]) > 80


\* the eight conditions in the order of the design, each with the messages
\* that report it, and whether the answers of call k violate it
CheckMsgs ==
    << {"header fetch failed"}, {"header too small"}, {"missing magic bytes"},
       {"unsupported version"}, {"invalid header n/dOrig"},
       {"no embeddings present", "no original embeddings section"},
       {"range fetch failed"}, {"range truncated"} >>

Violates(k, i) ==
    CASE i = 1 -> HeadAnswered(k) /\ k.head.status \notin {200, 206}
      [] i = 2 -> HeadAnswered(k) /\ ~HdrGot(k)
      [] i = 3 -> HeadAnswered(k) /\ HdrGot(k) /\ ~HdrTagOk(k)
      [] i = 4 -> HeadAnswered(k) /\ HdrGot(k) /\ HdrVersion(k) # 1
      [] i = 5 -> HeadAnswered(k) /\ HdrGot(k)
                    /\ (HdrN(k) <= 0 \/ HdrDOrig(k) <= 0)
      [] i = 6 -> HeadAnswered(k) /\ HdrGot(k) /\ ~HdrBit0(k)
      [] i = 7 -> ChunkAnswered(k) /\ k.chunk.status \notin {200, 206}
      [] i = 8 -> ChunkAnswered(k)
                    /\ Len(k.chunk.body)
                         < PayloadEnd(ClampedTake(k.n_vectors, HdrN(k)),
                                      HdrDOrig(k)) + 1

\* C15: when the answers violate several conditions at once, the error
\* reported is that of the first violated one in the order header status,
\* header length, magic tag, version, n/dOrig, flag bits, payload status,
\* payload length; a call that returns violated none.
C15_CheckOrder ==
    \A c \in CallIds :
      LET k == calls[c] IN
        /\ (k.pc = "FAILED" /\ k.err.exc = "ValueError") =>
              \E i \in 1..8 :
                /\ Violates(k, i)
                /\ k.err.msg \in CheckMsgs[i]
                /\ \A j \in 1..(i - 1) : ~Violates(k, j)
        /\ k.pc = "DONE" => \A i \in 1..8 : ~Violates(k, i)

\* a header with a wrong tag and version 2, and nothing after it, is
\* reported as a wrong tag
C15_Witness ==
    \E c \in CallIds :
      LET k == calls[c] IN
        /\ k.pc = "FAILED" /\ HeadAnswered(k) /\ k.head.status = 200
        /\ HdrGot(k) /\ ~HdrTagOk(k) /\ HdrVersion(k) = 2
        /\ HdrN(k) = 0 /\ ~HdrBit0(k)
        /\ k.err.msg = "missing magic bytes"

\* a 404 with a body shorter than 64 bytes is reported as a status failure
C15_WitnessStatus ==
    \E c \in CallIds :
      LET k == calls[c] IN
        /\ k.pc = "FAILED" /\ HeadAnswered(k) /\ k.head.status = 404
        /\ Len(k.head.body) < 64
        /\ k.err.msg = "header fetch failed"


\* C16: take, dimension and payloadEnd come from the header answer alone,
\* and the first 64 bytes of the payload answer are never looked at: once
\* the payload answer has status 200 or 206 and at least payloadEnd + 1
\* bytes the call returns, whatever those 64 bytes are, with the dimension
\* and the count of the header answer and the values of bytes
\* 64..payloadEnd of the payload answer.
C16_PayloadHeaderIgnored ==
    \A c \in CallIds :
      LET k == calls[c]
          dim == HdrDOrig(k)
          take == ClampedTake(k.n_vectors, HdrN(k))
      IN  /\ Len(k.requests) = 2 => k.requests[2].hi = PayloadEnd(take, dim)
          /\ ( /\ Over(k) /\ ChunkAnswered(k)
               /\ k.chunk.status \in {200, 206}
               /\ Len(k.chunk.body) >= PayloadEnd(take, dim) + 1 ) =>
               /\ k.pc = "DONE"
               /\ k.ret.dim = dim
               /\ Len(k.ret.vectors) = take
               /\ \A i \in 1..take :
                    /\ Len(k.ret.vectors[i]) = dim
                    /\ \A j \in 1..dim :
                         CameBack(FloatAt(k.chunk.body,
                                          64 + ((i - 1) * dim + (j - 1)) * 4),
                                  k.ret.vectors[i][j])

\* the payload answer came with another tag, n and dOrig in its first 64
\* bytes and other values after them, and the call returned those values
C16_Witness ==
    \E c \in CallIds :
      LET k == calls[c] IN
        /\ k.pc = "DONE" /\ HdrTagOk(k)
        /\ SubSeq(k.chunk.body, 1, 4) # Magic
        /\ U32LE(k.chunk.body, 8) # HdrN(k)
        /\ U32LE(k.chunk.body, 12) # HdrDOrig(k)
        /\ HdrDOrig(k) = 2 /\ Len(k.ret.vectors) = 2
        /\ k.ret.vectors[1][1] = FloatAt(k.chunk.body, 64)
        /\ k.ret.vectors[1][1] # FloatAt(server[c], 64)


\* the secret of a run of main, and whether a printed text shows it
Secret == ReadKey(main.env)
Contains(text, key) ==
    /\ key # << >>
    /\ \E i \in 1..(Len(text) - Len(key) + 1) :
         SubSeq(text, i, i + Len(key) - 1) = key
Printed(key) == \E i \in 1..Len(main.out) : Contains(main.out[i].text, key)

\* the three public steps succeeded
PublicVerified ==
    /\ Len(main.sent) >= 2
    /\ main.sent[1].path = "/health" /\ main.answers[1] = 200
    /\ main.sent[2].path = "/api/v1/models" /\ main.answers[2] = 200
    /\ \A c \in CallIds : calls[c].pc = "DONE"

\* the part of C17 on requests: a key sent is the one of the environment,
\* sent only after the three public steps succeeded; without a key no
\* request carries one, the sample's included, and main returns 0 after
\* the public steps
C17_KeyedRequests ==
    /\ \A i \in 1..Len(main.sent) :
         /\ main.sent[i].xkey \in {<< >>, Secret}
         /\ main.sent[i].xkey # << >> => (i >= 3 /\ PublicVerified)
    /\ Secret = << >> =>
         /\ \A i \in 1..Len(main.sent) : main.sent[i].xkey = << >>
         /\ Len(main.sent) <= 2
         /\ (main.pc = "EXIT" /\ PublicVerified) => main.rc = 0
         /\ main.rc = 0 => PublicVerified

\* C17: the key is safe.  It is read only from AQEA_API_KEY, nothing
\* printed on stdout or stderr shows it whatever the servers answer,
\* without a key no request carries X-API-Key and main returns 0 after
\* /health, /api/v1/models and the sample succeeded, and requests with the
\* key are sent only after those three steps.
C17_KeySafe ==
    /\ C17_KeyedRequests
    /\ ~Printed(Secret)

\* the key was sent to /api/v1/auth/verify, the answer was a 401 whose body
\* repeats it, and the error message shows it
C17_Leak ==
    /\ Secret = ApiKey /\ main.pc = "EXIT" /\ main.rc = 2
    /\ Len(main.sent) = 3 /\ main.sent[3].path = "/api/v1/auth/verify"
    /\ main.sent[3].xkey = Secret /\ main.answers[3] = 401
    /\ main.out[Len(main.out)].stream = "stderr"
    /\ Contains(main.out[Len(main.out)].text, Secret)

\* without a key main returned 0 after the three public steps
C17_NoKeyWitness ==
    /\ main.env.set /\ main.env.val # << >> /\ Secret = << >>
    /\ main.pc = "EXIT" /\ main.rc = 0 /\ PublicVerified
    /\ Len(main.sent) = 2

=============================================================================
